---- MODULE Spec2Model ----
(***************************************************************************)
(* Model of the donation backend worker (src/src/index.ts):                *)
(*   - createCheckoutSession : POST /create-checkout-session               *)
(*   - handleStripeWebhook   : POST /stripe-webhook, with the KV marker,   *)
(*     the payment-intent fetch and the Telegram dispatch.                 *)
(* Every await on a collaborator (KV get/put, Stripe fetch, Telegram       *)
(* fetch) is one step of a delivery, so that concurrent deliveries         *)
(* interleave exactly at the points where the runtime can switch.          *)
(***************************************************************************)
EXTENDS Integers, Naturals, Sequences, FiniteSets, TLC

(* ---------------------------------------------------------------- bounds *)
MaxDeliveries == 2      \* webhook deliveries in one behaviour
MaxNoteLen == 3         \* longest donor note (in characters)
MaxCents == 60          \* largest donation amount, in hundredths

Deliveries == 1..MaxDeliveries
SessionIds == {"cs_1", "cs_2"}

(* ------------------------------------------------------------ environment *)
STRIPE_WEBHOOK_SECRET == "whsec_live"

\* expirationTtl: 60 * 60 * 24 * 30
MarkerTtl == 2592000

NoMarker == [present |-> FALSE, value |-> "", ttl |-> 0]
Marker == [present |-> TRUE, value |-> "processed", ttl |-> MarkerTtl]

(* ------------------------------------------------------------- responses *)
NoResp == [status |-> 0, body |-> "", detail |-> "", cors |-> FALSE]
Resp(st, b) == [status |-> st, body |-> b, detail |-> "", cors |-> FALSE]

\* fetch(): the checkout response is rebuilt with the CORS headers, status and
\* body kept; the webhook response is returned as it is.
WithCors(r) == [r EXCEPT !.cors = TRUE]

(* ------------------------------------------------------- webhook requests *)
PaymentStatuses == {"paid", "unpaid"}

\* The raw body: either not JSON at all, or an event with a type and a session.
RawBodies ==
    {[json |-> FALSE, type |-> "", sid |-> "cs_1", payment_status |-> "unpaid"]}
    \cup {[json |-> TRUE, type |-> "payment_intent.succeeded", sid |-> "cs_1",
           payment_status |-> "unpaid"]}
    \cup {[json |-> TRUE, type |-> "checkout.session.completed", sid |-> s,
           payment_status |-> p] : s \in SessionIds, p \in PaymentStatuses}

\* What an attacker would sign instead: the same event claiming to be paid.
Tamper(b) == [b EXCEPT !.payment_status = IF @ = "paid" THEN "unpaid" ELSE "paid"]

\* HMAC-SHA256 over `${timestamp}.${rawBody}`: an ideal MAC, equal only for the
\* same key and the same message.
HMAC(key, t, body) == [key |-> key, t |-> t, msg |-> body]

Timestamp == 1700000000
NoMac == HMAC("", 0, [json |-> FALSE, type |-> "", sid |-> "cs_1", payment_status |-> "unpaid"])

\* stripe-signature header: t=<timestamp>,v1=<hex mac>, signed with the given
\* key over the given body.
Signed(key, body) == [form |-> "wellformed", t |-> Timestamp, mac |-> HMAC(key, Timestamp, body)]

\* The headers that must not pass: no header at all (null), a header that
\* does not split into two key=value fields, a MAC made with another key, a
\* MAC made over another body.
BadSigHeaders(body) ==
    {[form |-> "missing", t |-> 0, mac |-> NoMac],
     [form |-> "malformed", t |-> 0, mac |-> NoMac],
     Signed("whsec_forged", body),
     Signed(STRIPE_WEBHOOK_SECRET, Tamper(body))}

PaidBody(s) == [json |-> TRUE, type |-> "checkout.session.completed", sid |-> s,
                payment_status |-> "paid"]

\* The deliveries that are tried: every body correctly signed, every bad
\* header over a paid session, and a forged one over a body that is not JSON.
WebhookRequests ==
    {[body |-> b, sig |-> Signed(STRIPE_WEBHOOK_SECRET, b)] : b \in RawBodies}
    \cup {[body |-> PaidBody("cs_1"), sig |-> h] : h \in BadSigHeaders(PaidBody("cs_1"))}
    \cup {[body |-> b, sig |-> Signed("whsec_forged", b)] : b \in {bb \in RawBodies : ~bb.json}}

(* --------------------------------------------------------------- variables *)
VARIABLES
    kv,                 \* DONATION_TRACKER_KV: session id -> marker
    deliv,              \* the webhook deliveries (handleStripeWebhook runs)
    co,                 \* the checkout request in progress (createCheckoutSession)
    notifyCount,        \* session id -> number of sendTelegramNotification calls
    lastMessage,        \* the text of the last message given to sendTelegramNotification
    telegramConfigured, \* env.TELEGRAM_BOT_TOKEN && env.TELEGRAM_CHAT_ID
    kvFailed,           \* history: some KV get or put has thrown
    expired             \* history: some marker has expired

vars == <<kv, deliv, co, notifyCount, lastMessage, telegramConfigured, kvFailed, expired>>

IdleDelivery ==
    [pc |-> "idle", body |-> [json |-> FALSE, type |-> "", sid |-> "cs_1", payment_status |-> "unpaid"],
     sig |-> [form |-> "missing", t |-> 0, mac |-> NoMac],
     resp |-> NoResp, sawMarker |-> "unset", piResult |-> "unset", donorNote |-> <<>>,
     tgResult |-> "unset", putResult |-> "unset",
     gets |-> 0, puts |-> 0, fetches |-> 0, sends |-> 0,
     keys |-> {}, doneAtStart |-> {}]


(* ------------------------------------------------- notification formatting *)
\* SANY's lexer takes no grave accent in a string: the character U+0060
\* is written as a name.
Backtick == "GRAVE"

\* The 18 characters of the class in escapeMarkdownV2's regular expression.
ReservedChars ==
    {"_", "*", "[", "]", "(", ")", "~", Backtick, ">", "#", "+", "-", "=", "|", "{", "}", ".", "!"}

\* The characters donor notes are drawn from: reserved ones, a plain one and
\* the escape marker itself.
NoteChars == {"a", "*", "_", "[", ".", "!", "\\"}

NotesUpTo(n) == UNION {[1..k -> NoteChars] : k \in 0..n}
BriefNotes == {<<"a", "*">>}

IsReservedUnescapedDot(c) == c \in (ReservedChars \ {"."})

IsReserved(c) == c \in ReservedChars

\* text.replace(/[...]/g, '\\$&'): every reserved character gets a backslash
\* in front of it, every other character is copied.
RECURSIVE escapeMarkdownV2(_)
escapeMarkdownV2(text) ==
    IF text = <<>> THEN <<>>
    ELSE (IF IsReserved(Head(text)) THEN <<"\\", Head(text)>> ELSE <<Head(text)>>)
         \o escapeMarkdownV2(Tail(text))

\* The template of handleSuccessfulPayment: the fixed lines are tokens, the
\* donor note is spelled out character by character.
MessageHead == <<"TITLE", "RULE", "AMOUNT", "EMAIL", "TIME", "PAYMENT_ID">>
NoteLabel == "NOTE_LABEL"

telegramMessage(donorNote) ==
    MessageHead
    \o (IF donorNote # <<>> THEN <<NoteLabel>> \o escapeMarkdownV2(donorNote) ELSE <<>>)
    \o <<"RULE">>

(* ----------------------------------------------------------------- webhook *)
\* Lines 113-123: "throws" when the header cannot be split (null header, no
\* second field, no value), else the result of crypto.subtle.verify.
SignatureAlwaysVerified(sig, body) ==
    IF sig.form # "wellformed" THEN "throws" ELSE "verified"

SignatureOutcome(sig, body) ==
    IF sig.form # "wellformed" THEN "throws"
    ELSE IF sig.mac = HMAC(STRIPE_WEBHOOK_SECRET, sig.t, body) THEN "verified"
    ELSE "mismatch"

IsAnyEvent(type) == TRUE

\* event.type === 'checkout.session.completed'
IsCheckoutCompleted(type) == type = "checkout.session.completed"

IsPaidAlways(status) == TRUE

\* session.payment_status === 'paid'
IsPaid(status) == status = "paid"

NeverProcessed(value) == FALSE

\* if (alreadyProcessed): get() gives null (modelled "") or the stored string
alreadyProcessed(value) == value # ""

processedKeyShared(sid) == "processed_session_"

\* const processedKey = `processed_session_${session.id}`
processedKey(sid) == "processed_session_" \o sid

\* await env.DONATION_TRACKER_KV.get(processedKey)
KvGetValue(sid) == IF kv[sid].present THEN kv[sid].value ELSE ""

\* Lines 109-128: the request arrives, its signature is checked and its body
\* parsed; nothing shared is touched before the KV get.
WebhookReceive(d, body, sig) ==
    /\ deliv[d].pc = "idle"
    /\ IF d = 1 THEN TRUE ELSE deliv[d - 1].pc # "idle"
    /\ LET started == [deliv[d] EXCEPT !.body = body, !.sig = sig,
                          !.doneAtStart = {e \in Deliveries : deliv[e].pc = "done"}]
           outcome == SignatureOutcome(sig, body)
       IN  deliv' = [deliv EXCEPT ![d] =
              IF outcome = "throws"
                THEN [started EXCEPT !.pc = "done", !.resp = Resp(400, "Webhook error")]
              ELSE IF outcome = "mismatch"
                THEN [started EXCEPT !.pc = "done",
                          !.resp = Resp(400, "Webhook signature verification failed.")]
              ELSE IF ~body.json
                THEN [started EXCEPT !.pc = "done", !.resp = Resp(400, "Webhook error")]
              ELSE IF ~IsCheckoutCompleted(body.type)
                THEN [started EXCEPT !.pc = "done", !.resp = Resp(200, "received")]
              ELSE [started EXCEPT !.pc = "kvget"]]
    /\ UNCHANGED <<kv, co, notifyCount, lastMessage, telegramConfigured, kvFailed, expired>>

KvGetFailureMeansAbsent(d) ==
    /\ deliv[d].pc = "kvget"
    /\ \E ok \in BOOLEAN :
         LET got == [deliv[d] EXCEPT !.gets = @ + 1,
                                     !.keys = @ \cup {processedKey(deliv[d].body.sid)}]
             value == IF ok THEN KvGetValue(deliv[d].body.sid) ELSE ""
             seen == IF ~ok THEN "error" ELSE IF alreadyProcessed(value) THEN "present" ELSE "absent"
         IN  /\ kvFailed' = (kvFailed \/ ~ok)
             /\ deliv' = [deliv EXCEPT ![d] =
                   IF alreadyProcessed(value)
                     THEN [got EXCEPT !.pc = "done", !.sawMarker = seen,
                                      !.resp = Resp(200, "already_processed")]
                   ELSE IF IsPaid(deliv[d].body.payment_status)
                     THEN [got EXCEPT !.pc = "fetchpi", !.sawMarker = seen]
                   ELSE [got EXCEPT !.pc = "done", !.sawMarker = seen,
                                    !.resp = Resp(200, "received")]]
    /\ UNCHANGED <<kv, co, notifyCount, lastMessage, telegramConfigured, expired>>

KvGetWaitsForOthers(d) ==
    /\ deliv[d].pc = "kvget"
    /\ \A o \in Deliveries \ {d} :
          ~(deliv[o].pc \in {"fetchpi", "notify", "kvput"} /\ deliv[o].body.sid = deliv[d].body.sid)
    /\ \E ok \in BOOLEAN :
         LET got == [deliv[d] EXCEPT !.gets = @ + 1,
                                     !.keys = @ \cup {processedKey(deliv[d].body.sid)}]
             value == KvGetValue(deliv[d].body.sid)
         IN  IF ~ok
               THEN /\ deliv' = [deliv EXCEPT ![d] =
                          [got EXCEPT !.pc = "done", !.sawMarker = "error",
                                      !.resp = Resp(400, "Webhook error")]]
                    /\ kvFailed' = TRUE
               ELSE /\ kvFailed' = kvFailed
                    /\ deliv' = [deliv EXCEPT ![d] =
                          IF alreadyProcessed(value)
                            THEN [got EXCEPT !.pc = "done", !.sawMarker = "present",
                                             !.resp = Resp(200, "already_processed")]
                          ELSE IF IsPaid(deliv[d].body.payment_status)
                            THEN [got EXCEPT !.pc = "fetchpi", !.sawMarker = "absent"]
                          ELSE [got EXCEPT !.pc = "done", !.sawMarker = "absent",
                                           !.resp = Resp(200, "received")]]
    /\ UNCHANGED <<kv, co, notifyCount, lastMessage, telegramConfigured, expired>>

\* Lines 129-137: the marker is read; a present marker ends the delivery, an
\* unpaid session is acknowledged, a paid one goes on to handleSuccessfulPayment.
KvGet(d) ==
    /\ deliv[d].pc = "kvget"
    /\ \E ok \in BOOLEAN :
         LET got == [deliv[d] EXCEPT !.gets = @ + 1,
                                     !.keys = @ \cup {processedKey(deliv[d].body.sid)}]
             value == KvGetValue(deliv[d].body.sid)
         IN  IF ~ok
               THEN /\ deliv' = [deliv EXCEPT ![d] =
                          [got EXCEPT !.pc = "done", !.sawMarker = "error",
                                      !.resp = Resp(400, "Webhook error")]]
                    /\ kvFailed' = TRUE
               ELSE /\ kvFailed' = kvFailed
                    /\ deliv' = [deliv EXCEPT ![d] =
                          IF alreadyProcessed(value)
                            THEN [got EXCEPT !.pc = "done", !.sawMarker = "present",
                                             !.resp = Resp(200, "already_processed")]
                          ELSE IF IsPaid(deliv[d].body.payment_status)
                            THEN [got EXCEPT !.pc = "fetchpi", !.sawMarker = "absent"]
                          ELSE [got EXCEPT !.pc = "done", !.sawMarker = "absent",
                                           !.resp = Resp(200, "received")]]
    /\ UNCHANGED <<kv, co, notifyCount, lastMessage, telegramConfigured, expired>>

RetrievePaymentIntentNullThrows(d, noteSet) ==
    /\ deliv[d].pc = "fetchpi"
    /\ \E r \in {"skipped", "ok", "null", "threw"}, note \in noteSet \cup {<<>>} :
         /\ r = "ok" => note \in noteSet
         /\ r # "ok" => note = <<>>
         /\ deliv' = [deliv EXCEPT ![d] =
              [deliv[d] EXCEPT !.piResult = r,
                               !.fetches = IF r = "skipped" THEN @ ELSE @ + 1,
                               !.donorNote = note,
                               !.pc = IF r \in {"threw", "null"} THEN "done" ELSE "notify",
                               !.resp = IF r \in {"threw", "null"}
                                          THEN Resp(400, "Webhook error") ELSE @]]
    /\ UNCHANGED <<kv, co, notifyCount, lastMessage, telegramConfigured, kvFailed, expired>>

RetrievePaymentIntentSkipsNotify(d, noteSet) ==
    /\ deliv[d].pc = "fetchpi"
    /\ \E r \in {"skipped", "ok", "null", "threw"}, note \in noteSet \cup {<<>>} :
         /\ r = "ok" => note \in noteSet
         /\ r # "ok" => note = <<>>
         /\ deliv' = [deliv EXCEPT ![d] =
              [deliv[d] EXCEPT !.piResult = r,
                               !.fetches = IF r = "skipped" THEN @ ELSE @ + 1,
                               !.donorNote = note,
                               !.pc = IF r = "threw" THEN "done"
                                      ELSE IF r = "null" THEN "kvput" ELSE "notify",
                               !.resp = IF r = "threw" THEN Resp(400, "Webhook error") ELSE @]]
    /\ UNCHANGED <<kv, co, notifyCount, lastMessage, telegramConfigured, kvFailed, expired>>

\* Lines 157-167 and 175-176: no payment_intent reference ("skipped"), a
\* payment intent with its note ("ok"), a non-success status ("null"), or a
\* fetch / json() that throws, which leaves handleSuccessfulPayment and is
\* caught by handleStripeWebhook.
RetrievePaymentIntent(d, noteSet) ==
    /\ deliv[d].pc = "fetchpi"
    /\ \E r \in {"skipped", "ok", "null", "threw"}, note \in noteSet \cup {<<>>} :
         /\ r = "ok" => note \in noteSet
         /\ r # "ok" => note = <<>>
         /\ deliv' = [deliv EXCEPT ![d] =
              [deliv[d] EXCEPT !.piResult = r,
                               !.fetches = IF r = "skipped" THEN @ ELSE @ + 1,
                               !.donorNote = note,
                               !.pc = IF r = "threw" THEN "done" ELSE "notify",
                               !.resp = IF r = "threw" THEN Resp(400, "Webhook error") ELSE @]]
    /\ UNCHANGED <<kv, co, notifyCount, lastMessage, telegramConfigured, kvFailed, expired>>

NotifyUncaught(d) ==
    /\ deliv[d].pc = "notify"
    /\ IF telegramConfigured
         THEN \E out \in {"ok", "notok", "threw"} :
                /\ deliv' = [deliv EXCEPT ![d] =
                      IF out = "ok"
                        THEN [deliv[d] EXCEPT !.pc = "kvput", !.sends = @ + 1, !.tgResult = "ok"]
                        ELSE [deliv[d] EXCEPT !.pc = "done", !.sends = @ + 1, !.tgResult = "failed",
                                              !.resp = Resp(400, "Webhook error")]]
                /\ notifyCount' = [notifyCount EXCEPT ![deliv[d].body.sid] = @ + 1]
                /\ lastMessage' = telegramMessage(deliv[d].donorNote)
         ELSE /\ deliv' = [deliv EXCEPT ![d].pc = "kvput", ![d].tgResult = "skipped"]
              /\ UNCHANGED <<notifyCount, lastMessage>>
    /\ UNCHANGED <<kv, co, telegramConfigured, kvFailed, expired>>

NotifyRechecksMarker(d) ==
    /\ deliv[d].pc = "notify"
    /\ IF telegramConfigured /\ ~kv[deliv[d].body.sid].present
         THEN \E out \in {"ok", "notok", "threw"} :
                /\ deliv' = [deliv EXCEPT ![d].pc = "kvput", ![d].sends = @ + 1,
                                          ![d].tgResult = IF out = "ok" THEN "ok" ELSE "failed"]
                /\ notifyCount' = [notifyCount EXCEPT ![deliv[d].body.sid] = @ + 1]
                /\ lastMessage' = telegramMessage(deliv[d].donorNote)
         ELSE /\ deliv' = [deliv EXCEPT ![d].pc = "kvput", ![d].tgResult = "skipped"]
              /\ UNCHANGED <<notifyCount, lastMessage>>
    /\ UNCHANGED <<kv, co, telegramConfigured, kvFailed, expired>>

NotifyMarksFirst(d) ==
    /\ deliv[d].pc = "notify"
    /\ kv' = [kv EXCEPT ![deliv[d].body.sid] = Marker]
    /\ IF telegramConfigured
         THEN \E out \in {"ok", "notok", "threw"} :
                /\ deliv' = [deliv EXCEPT ![d].pc = "kvput", ![d].sends = @ + 1,
                                          ![d].tgResult = IF out = "ok" THEN "ok" ELSE "failed"]
                /\ notifyCount' = [notifyCount EXCEPT ![deliv[d].body.sid] = @ + 1]
                /\ lastMessage' = telegramMessage(deliv[d].donorNote)
         ELSE /\ deliv' = [deliv EXCEPT ![d].pc = "kvput", ![d].tgResult = "skipped"]
              /\ UNCHANGED <<notifyCount, lastMessage>>
    /\ UNCHANGED <<co, telegramConfigured, kvFailed, expired>>

NotifyUnconfiguredReturnsEarly(d) ==
    /\ deliv[d].pc = "notify"
    /\ IF telegramConfigured
         THEN \E out \in {"ok", "notok", "threw"} :
                /\ deliv' = [deliv EXCEPT ![d].pc = "kvput", ![d].sends = @ + 1,
                                          ![d].tgResult = IF out = "ok" THEN "ok" ELSE "failed"]
                /\ notifyCount' = [notifyCount EXCEPT ![deliv[d].body.sid] = @ + 1]
                /\ lastMessage' = telegramMessage(deliv[d].donorNote)
         ELSE /\ deliv' = [deliv EXCEPT ![d].pc = "done", ![d].tgResult = "skipped",
                                        ![d].resp = Resp(200, "received")]
              /\ UNCHANGED <<notifyCount, lastMessage>>
    /\ UNCHANGED <<kv, co, telegramConfigured, kvFailed, expired>>

\* Lines 178-208 and 211-229: the message is built and, when the bot token and
\* the chat id are configured, given to sendTelegramNotification once; a
\* non-success answer or a throwing fetch is caught and logged.
Notify(d) ==
    /\ deliv[d].pc = "notify"
    /\ IF telegramConfigured
         THEN \E out \in {"ok", "notok", "threw"} :
                /\ deliv' = [deliv EXCEPT ![d].pc = "kvput", ![d].sends = @ + 1,
                                          ![d].tgResult = IF out = "ok" THEN "ok" ELSE "failed"]
                /\ notifyCount' = [notifyCount EXCEPT ![deliv[d].body.sid] = @ + 1]
                /\ lastMessage' = telegramMessage(deliv[d].donorNote)
         ELSE /\ deliv' = [deliv EXCEPT ![d].pc = "kvput", ![d].tgResult = "skipped"]
              /\ UNCHANGED <<notifyCount, lastMessage>>
    /\ UNCHANGED <<kv, co, telegramConfigured, kvFailed, expired>>

KvPutForgets(d) ==
    /\ deliv[d].pc = "kvput"
    /\ deliv' = [deliv EXCEPT ![d] = [deliv[d] EXCEPT !.pc = "done", !.puts = @ + 1,
                                                     !.putResult = "ok",
                                                     !.resp = Resp(200, "received")]]
    /\ UNCHANGED <<kv, co, notifyCount, lastMessage, telegramConfigured, kvFailed, expired>>

KvPutNotAwaited(d) ==
    /\ deliv[d].pc = "kvput"
    /\ deliv' = [deliv EXCEPT ![d] =
          [deliv[d] EXCEPT !.pc = "done", !.puts = @ + 1, !.putResult = "pending",
                           !.keys = @ \cup {processedKey(deliv[d].body.sid)},
                           !.resp = Resp(200, "received")]]
    /\ UNCHANGED <<kv, co, notifyCount, lastMessage, telegramConfigured, kvFailed, expired>>

\* Lines 139-146: the marker is written with its 30-day TTL and the delivery
\* acknowledged; a put that throws is caught and answered with 400.
KvPut(d) ==
    /\ deliv[d].pc = "kvput"
    /\ \E ok \in BOOLEAN :
         LET put == [deliv[d] EXCEPT !.pc = "done", !.puts = @ + 1,
                                     !.keys = @ \cup {processedKey(deliv[d].body.sid)}]
         IN  IF ok
               THEN /\ kv' = [kv EXCEPT ![deliv[d].body.sid] = Marker]
                    /\ deliv' = [deliv EXCEPT ![d] =
                          [put EXCEPT !.putResult = "ok", !.resp = Resp(200, "received")]]
                    /\ kvFailed' = kvFailed
               ELSE /\ kv' = kv
                    /\ deliv' = [deliv EXCEPT ![d] =
                          [put EXCEPT !.putResult = "error", !.resp = Resp(400, "Webhook error")]]
                    /\ kvFailed' = TRUE
    /\ UNCHANGED <<co, notifyCount, lastMessage, telegramConfigured, expired>>

\* The runtime ends the invocation at one of its awaits (lines 130, 159, 218,
\* 139: crash, eviction, time limit): nothing after the await runs, the catch
\* of line 143 included, and no response is produced.
Crash(d) ==
    /\ deliv[d].pc \in {"kvget", "fetchpi", "notify", "kvput"}
    /\ deliv' = [deliv EXCEPT ![d].pc = "done", ![d].resp = NoResp]
    /\ UNCHANGED <<kv, co, notifyCount, lastMessage, telegramConfigured, kvFailed, expired>>

\* The secrets TELEGRAM_BOT_TOKEN and TELEGRAM_CHAT_ID (lines 6-7) are set
\* on a worker deployed without them; line 199 reads them at each delivery.
Configure ==
    /\ ~telegramConfigured
    /\ telegramConfigured' = TRUE
    /\ UNCHANGED <<kv, deliv, co, notifyCount, lastMessage, kvFailed, expired>>

\* expirationTtl: the store drops the marker when its 30 days are over.
Expire(s) ==
    /\ kv[s].present
    /\ kv' = [kv EXCEPT ![s] = NoMarker]
    /\ expired' = TRUE
    /\ UNCHANGED <<deliv, co, notifyCount, lastMessage, telegramConfigured, kvFailed>>


(* ------------------------------------------- IEEE-754 binary64 arithmetic *)
\* parseFloat(amount) * 100 is a product of doubles.  A double is kept as its
\* 53 significant bits (most significant first) and the exponent of the
\* leading bit; all the arithmetic is done bit by bit, so no number of the
\* model grows past a machine word.
Precision == 53
FracLen == Precision + 11   \* binary digits of the fraction that are generated

Zeros(n) == [i \in 1..n |-> 0]

\* The binary digits of a natural number, most significant first.
RECURSIVE IntBits(_)
IntBits(n) == IF n = 0 THEN <<>> ELSE Append(IntBits(n \div 2), n % 2)

\* The first n binary digits of r / den, for r < den.
RECURSIVE FracBits(_, _, _)
FracBits(r, den, n) ==
    IF n = 0 THEN <<>>
    ELSE <<IF 2 * r >= den THEN 1 ELSE 0>> \o FracBits((2 * r) % den, den, n - 1)

\* What is left of r / den after n binary digits.
RECURSIVE FracRem(_, _, _)
FracRem(r, den, n) == IF n = 0 \/ r = 0 THEN r ELSE FracRem((2 * r) % den, den, n - 1)

\* The sum of two equally long bit strings, positions 1..i, with a carry in.
RECURSIVE AddFrom(_, _, _, _)
AddFrom(a, b, i, carry) ==
    IF i = 0 THEN <<>>
    ELSE IF a[i] + b[i] + carry >= 2
      THEN Append(AddFrom(a, b, i - 1, 1), a[i] + b[i] + carry - 2)
      ELSE Append(AddFrom(a, b, i - 1, 0), a[i] + b[i] + carry)

AddBits(a, b) == AddFrom(a, b, Len(a), 0)

RECURSIVE LeadingZeros(_)
LeadingZeros(bits) ==
    IF bits = <<>> \/ Head(bits) = 1 THEN 0 ELSE 1 + LeadingZeros(Tail(bits))

\* Round to nearest, ties to even.  bits[1] has the weight 2^(point - 1);
\* `more` says that something non-zero lies beyond the bits given.
RoundToDouble(bits, point, more) ==
    LET lz == LeadingZeros(bits)
        sig == SubSeq(bits, lz + 1, Len(bits)) \o Zeros(Precision + 1)
        mant == SubSeq(sig, 1, Precision)
        guard == sig[Precision + 1]
        sticky == more \/ \E i \in (Precision + 2)..Len(sig) : sig[i] = 1
        up == guard = 1 /\ (sticky \/ mant[Precision] = 1)
        allOnes == \A i \in 1..Precision : mant[i] = 1
    IN  IF ~up THEN [m |-> mant, e |-> point - lz - 1]
        ELSE IF allOnes THEN [m |-> <<1>> \o Zeros(Precision - 1), e |-> point - lz]
        ELSE [m |-> AddBits(mant, Zeros(Precision - 1) \o <<1>>), e |-> point - lz - 1]

\* The double of a whole number n >= 1.
DoubleOfInt(n) == RoundToDouble(IntBits(n), Len(IntBits(n)), FALSE)

\* parseFloat of the decimal cents/100, cents >= 1: the nearest double.
parseFloat(cents) ==
    LET whole == IntBits(cents \div 100)
    IN  RoundToDouble(whole \o FracBits(cents % 100, 100, FracLen), Len(whole),
                      FracRem(cents % 100, 100, FracLen) # 0)

\* x * 100 in doubles: 100 = 64 + 32 + 4, so the exact product of the
\* significand is the sum of three shifts of it, rounded once.
Times100(x) ==
    LET by64 == <<0>> \o x.m \o Zeros(6)
        by32 == <<0, 0>> \o x.m \o Zeros(5)
        by4 == Zeros(5) \o x.m \o Zeros(2)
    IN  RoundToDouble(AddBits(AddBits(by64, by32), by4), x.e + 8, FALSE)

\* const unitAmount = parseFloat(amount) * 100;
unitAmount(cents) == Times100(parseFloat(cents))


(* ---------------------------------------------------------------- checkout *)
\* The JSON body of POST /create-checkout-session.  amount: undefined, the
\* number 0, the empty string, or a decimal with two places (cents / 100);
\* currency: undefined, a number, or a string; the URLs and the note: given or not.
NoAmount == [kind |-> "undefined", cents |-> 0]
NoCurrency == [kind |-> "undefined", chars |-> <<>>]

Amounts(maxCents) ==
    {NoAmount, [kind |-> "zero", cents |-> 0], [kind |-> "emptystring", cents |-> 0]}
    \cup {[kind |-> "decimal", cents |-> c] : c \in 1..maxCents}

Currencies ==
    {NoCurrency, [kind |-> "number", chars |-> <<>>]}
    \cup {[kind |-> "string", chars |-> w] :
            w \in {<<>>, <<"u", "s", "d">>, <<"U", "S", "D">>, <<"E", "u", "r">>}}

Requests(amounts) ==
    {[json |-> FALSE, amount |-> NoAmount, currency |-> NoCurrency,
      successUrl |-> FALSE, cancelUrl |-> FALSE, note |-> FALSE]}
    \cup [json : {TRUE}, amount : amounts, currency : Currencies,
          successUrl : BOOLEAN, cancelUrl : BOOLEAN, note : BOOLEAN]

\* What the provider answers: a session, an error object with its status, a
\* body that is not JSON, or no answer at all (fetch rejects).
ProviderOutcomes ==
    {[kind |-> k, status |-> 200, message |-> ""] : k \in {"ok", "nonjson", "throw"}}
    \cup {[kind |-> "error", status |-> st, message |-> msg] :
            st \in {400, 429}, msg \in {"Invalid currency", "Rate limited"}}

\* !amount is false for a decimal other than 0 only; !currency is false for
\* a number and for a string that is not empty.
Truthy(amount) == amount.kind = "decimal"
TruthyCurrency(currency) ==
    currency.kind = "number" \/ (currency.kind = "string" /\ currency.chars # <<>>)

MissingIgnoresCancelUrl(req) ==
    ~Truthy(req.amount) \/ ~TruthyCurrency(req.currency) \/ ~req.successUrl

\* !amount || !currency || !successUrl || !cancelUrl
MissingRequired(req) ==
    ~Truthy(req.amount) \/ ~TruthyCurrency(req.currency) \/ ~req.successUrl \/ ~req.cancelUrl

ToLowerChar(c) ==
    CASE c = "U" -> "u" [] c = "S" -> "s" [] c = "D" -> "d" [] c = "E" -> "e"
      [] c = "R" -> "r" [] OTHER -> c

\* currency.toLowerCase()
toLowerCase(chars) == [i \in 1..Len(chars) |-> ToLowerChar(chars[i])]

NoOutcome == [kind |-> "none", status |-> 0, message |-> ""]
NoSent == [currency |-> <<>>, unit_amount |-> [m |-> <<>>, e |-> 0], note |-> FALSE]
IdleCheckout ==
    [pc |-> "idle",
     req |-> [json |-> FALSE, amount |-> NoAmount, currency |-> NoCurrency,
              successUrl |-> FALSE, cancelUrl |-> FALSE, note |-> FALSE],
     sent |-> NoSent, outcome |-> NoOutcome, resp |-> NoResp, calls |-> 0]

ErrorResp(st, msg) == WithCors([status |-> st, body |-> "error", detail |-> msg, cors |-> FALSE])

\* Lines 50-87: the body is read and validated, the form is built and the
\* call to the provider issued.  A body that cannot be read, and a currency
\* that is no string (toLowerCase is not a function), end in the catch.
CheckoutRequest(req) ==
    /\ co.pc = "idle"
    /\ co' =
         IF ~req.json
           THEN [co EXCEPT !.pc = "done", !.req = req,
                           !.resp = ErrorResp(500, "Internal server error.")]
         ELSE IF MissingRequired(req)
           THEN [co EXCEPT !.pc = "done", !.req = req,
                           !.resp = ErrorResp(400, "Missing required fields.")]
         ELSE IF req.currency.kind # "string"
           THEN [co EXCEPT !.pc = "done", !.req = req,
                           !.resp = ErrorResp(500, "Internal server error.")]
         ELSE [co EXCEPT !.pc = "calling", !.req = req, !.calls = @ + 1,
                         !.sent = [currency |-> toLowerCase(req.currency.chars),
                                   unit_amount |-> unitAmount(req.amount.cents),
                                   note |-> req.note]]
    /\ UNCHANGED <<kv, deliv, notifyCount, lastMessage, telegramConfigured, kvFailed, expired>>

CheckoutReplyRetries(out) ==
    /\ co.pc = "calling"
    /\ co' = IF out.kind = "ok"
               THEN [co EXCEPT !.pc = "done", !.outcome = out,
                       !.resp = WithCors([status |-> 200, body |-> "id", detail |-> "cs_new", cors |-> FALSE])]
               ELSE [co EXCEPT !.calls = @ + 1, !.outcome = out, !.pc = IF co.calls >= 2 THEN "done" ELSE "calling",
                               !.resp = ErrorResp(500, "Internal server error.")]
    /\ UNCHANGED <<kv, deliv, notifyCount, lastMessage, telegramConfigured, kvFailed, expired>>

\* Lines 88-103: the provider's answer is turned into the response.
CheckoutReply(out) ==
    /\ co.pc = "calling"
    /\ co' = [co EXCEPT !.pc = "done", !.outcome = out, !.resp =
                IF out.kind \in {"throw", "nonjson"} THEN ErrorResp(500, "Internal server error.")
                ELSE IF out.kind = "error" THEN ErrorResp(out.status, out.message)
                ELSE WithCors([status |-> 200, body |-> "id", detail |-> "cs_new", cors |-> FALSE])]
    /\ UNCHANGED <<kv, deliv, notifyCount, lastMessage, telegramConfigured, kvFailed, expired>>

(* ------------------------------------------------------------ specifications *)
Init ==
    /\ kv = [s \in SessionIds |-> NoMarker]
    /\ deliv = [d \in Deliveries |-> IdleDelivery]
    /\ co = IdleCheckout
    /\ notifyCount = [s \in SessionIds |-> 0]
    /\ lastMessage = <<>>
    /\ telegramConfigured \in BOOLEAN
    /\ kvFailed = FALSE
    /\ expired = FALSE

\* The worker under concurrent webhook deliveries.
Next ==
    \/ \E d \in Deliveries, rq \in WebhookRequests : WebhookReceive(d, rq.body, rq.sig)
    \/ \E d \in Deliveries : KvGet(d)
    \/ \E d \in Deliveries : RetrievePaymentIntent(d, BriefNotes)
    \/ \E d \in Deliveries : Notify(d)
    \/ \E d \in Deliveries : KvPut(d)
    \/ \E s \in SessionIds : Expire(s)

Spec == Init /\ [][Next]_vars

\* One paid, correctly signed delivery.
PaidDelivery(noteSet) ==
    \/ \E s \in SessionIds :
          WebhookReceive(1, PaidBody(s), Signed(STRIPE_WEBHOOK_SECRET, PaidBody(s)))
    \/ KvGet(1)
    \/ RetrievePaymentIntent(1, noteSet)
    \/ Notify(1)
    \/ KvPut(1)

\* createCheckoutSession alone, over every request up to MaxCents.
NextCheckout ==
    \/ \E req \in Requests(Amounts(MaxCents)) : CheckoutRequest(req)
    \/ \E out \in ProviderOutcomes : CheckoutReply(out)

SpecCheckout == Init /\ [][NextCheckout]_vars

\* createCheckoutSession beside a webhook delivery that uses the store and
\* the chat.
NextMixed ==
    \/ \E req \in Requests(Amounts(1)) : CheckoutRequest(req)
    \/ \E out \in ProviderOutcomes : CheckoutReply(out)
    \/ PaidDelivery(BriefNotes)

SpecMixed == Init /\ [][NextMixed]_vars

\* Paid deliveries, any of which the runtime may end at an await.
NextFault ==
    \/ \E d \in Deliveries, s \in SessionIds :
          WebhookReceive(d, PaidBody(s), Signed(STRIPE_WEBHOOK_SECRET, PaidBody(s)))
    \/ \E d \in Deliveries : KvGet(d)
    \/ \E d \in Deliveries : RetrievePaymentIntent(d, BriefNotes)
    \/ \E d \in Deliveries : Notify(d)
    \/ \E d \in Deliveries : KvPut(d)
    \/ \E d \in Deliveries : Crash(d)

SpecFault == Init /\ [][NextFault]_vars

\* The steps of one delivery after its arrival: each is the return, or the
\* failure, of the collaborator call the delivery is waiting for.
DeliveryStep(d) ==
    \/ KvGet(d)
    \/ RetrievePaymentIntent(d, BriefNotes)
    \/ Notify(d)
    \/ KvPut(d)

\* Deliveries for one session: paid, unpaid, of another kind, badly signed.
LiveRequests ==
    {rq \in WebhookRequests : rq.body.sid = "cs_1" /\ rq.sig.form # "malformed"}

NextLive ==
    \/ \E d \in Deliveries, rq \in LiveRequests : WebhookReceive(d, rq.body, rq.sig)
    \/ \E d \in Deliveries : DeliveryStep(d)

\* Every collaborator call of the deliveries after the first returns or fails
\* in the end; the first delivery may stall for ever at any of its awaits.
SpecLive ==
    /\ Init /\ [][NextLive]_vars
    /\ \A d \in Deliveries \ {1} : WF_vars(DeliveryStep(d))

\* Completed events, paid or not, while the chat secrets may be supplied and
\* markers may expire.
NextConfig ==
    \/ \E d \in Deliveries, s \in SessionIds, p \in PaymentStatuses :
          LET b == [PaidBody(s) EXCEPT !.payment_status = p]
          IN  WebhookReceive(d, b, Signed(STRIPE_WEBHOOK_SECRET, b))
    \/ \E d \in Deliveries : DeliveryStep(d)
    \/ \E s \in SessionIds : Expire(s)
    \/ Configure

SpecConfig == Init /\ [][NextConfig]_vars

\* One paid delivery, over every donor note up to MaxNoteLen.
NextNote == PaidDelivery(NotesUpTo(MaxNoteLen))

SpecNote == Init /\ [][NextNote]_vars


(* ------------------------------------------------------------------ claims *)
Started(d) == deliv[d].pc # "idle"
Done(d) == deliv[d].pc = "done"
Sid(d) == deliv[d].body.sid

\* The header the payment provider itself makes for the body delivered.
CorrectlySigned(d) == deliv[d].sig = Signed(STRIPE_WEBHOOK_SECRET, deliv[d].body)

CompletedEvent(d) ==
    /\ Started(d) /\ deliv[d].body.json
    /\ deliv[d].body.type = "checkout.session.completed"
    /\ CorrectlySigned(d)

PaidEvent(d) == deliv[d].body.payment_status = "paid" /\ CompletedEvent(d)
UnpaidEvent(d) == deliv[d].body.payment_status # "paid" /\ CompletedEvent(d)

\* d and e are the only deliveries of a correctly signed completed event of
\* their session.
OnlyDeliveriesOfSession(d, e) ==
    \A o \in Deliveries \ {d, e} : ~(CompletedEvent(o) /\ Sid(o) = Sid(d))

\* The same paid event delivered twice, e after d has returned, with the chat
\* configured, the store answering and the marker absent before d and kept
\* between the two.
TwiceInSequence(d, e) ==
    /\ d # e /\ Done(d) /\ Done(e)
    /\ telegramConfigured /\ ~kvFailed /\ ~expired
    /\ d \in deliv[e].doneAtStart
    /\ deliv[d].body = deliv[e].body /\ PaidEvent(d) /\ PaidEvent(e)
    /\ OnlyDeliveriesOfSession(d, e)

ExactlyOnceThenSkipped(d, e) ==
    /\ notifyCount[Sid(d)] = 1
    /\ deliv[e].resp = Resp(200, "already_processed")

\* C1, as claimed: the same paid event delivered twice in sequence gives
\* exactly one notification dispatch, and the second delivery answers 200
\* {status: "already_processed"}.
C1_TwiceSequentialOnce ==
    \A d, e \in Deliveries : TwiceInSequence(d, e) => ExactlyOnceThenSkipped(d, e)

\* C1, amended: the same, when the payment-intent fetch of the first delivery
\* does not throw.
C1_TwiceSequentialOnceUnlessFetchThrows ==
    \A d, e \in Deliveries :
        TwiceInSequence(d, e) /\ deliv[d].piResult # "threw" => ExactlyOnceThenSkipped(d, e)

C1_Witness ==
    \E d, e \in Deliveries :
        /\ TwiceInSequence(d, e) /\ deliv[d].piResult = "ok"
        /\ deliv[d].resp = Resp(200, "received") /\ deliv[d].sends = 1
        /\ deliv[e].resp = Resp(200, "already_processed") /\ deliv[e].sends = 0

\* No two deliveries overlap: each one starts when all the earlier ones have
\* been answered.
NoOverlap ==
    \A d \in Deliveries : Started(d) => deliv[d].doneAtStart = {e \in Deliveries : e < d}

\* C2: when no two deliveries overlap, every store get and put succeeds and
\* no marker expires, sendTelegramNotification is called at most once for
\* each session identifier.
C2_AtMostOnceWhenSequential ==
    NoOverlap /\ ~kvFailed /\ ~expired => \A s \in SessionIds : notifyCount[s] <= 1

C2_Witness ==
    /\ NoOverlap /\ ~kvFailed /\ ~expired
    /\ \E d, e \in Deliveries :
         /\ d < e /\ Done(d) /\ Done(e) /\ PaidEvent(d) /\ PaidEvent(e) /\ Sid(d) = Sid(e)
         /\ deliv[d].piResult = "threw" /\ deliv[d].resp.status = 400
         /\ deliv[e].sends = 1 /\ notifyCount[Sid(e)] = 1 /\ kv[Sid(e)].present

NoSideEffects(d) ==
    deliv[d].gets = 0 /\ deliv[d].puts = 0 /\ deliv[d].fetches = 0 /\ deliv[d].sends = 0

\* C3: a delivery whose signature does not verify (no header, malformed
\* header, MAC mismatch) is answered 400 and makes no store get or put, no
\* payment-intent fetch and no notification dispatch, whatever its body.
C3_BadSignatureRejected ==
    \A d \in Deliveries :
        Started(d) /\ ~CorrectlySigned(d) =>
            Done(d) /\ deliv[d].resp.status = 400 /\ NoSideEffects(d)

C3_Witness ==
    \E d, e \in Deliveries :
        /\ Done(d) /\ deliv[d].body = PaidBody("cs_1")
        /\ deliv[d].sig = Signed(STRIPE_WEBHOOK_SECRET, Tamper(PaidBody("cs_1")))
        /\ deliv[d].resp.status = 400
        /\ Done(e) /\ ~deliv[e].body.json /\ deliv[e].sig.form = "wellformed"
        /\ ~CorrectlySigned(e) /\ deliv[e].resp.status = 400

\* C4: a correctly signed completed event that is not paid never writes a
\* marker and never dispatches; finding no marker it is answered 200
\* {received: true}, and a later paid delivery of the session still finds no
\* marker.
C4_UnpaidLeavesNoTrace ==
    \A d \in Deliveries :
        UnpaidEvent(d) =>
            /\ deliv[d].puts = 0 /\ deliv[d].sends = 0 /\ deliv[d].fetches = 0
            /\ Done(d) /\ deliv[d].sawMarker = "absent" => deliv[d].resp = Resp(200, "received")
            /\ \A e \in Deliveries :
                 ( /\ PaidEvent(e) /\ Sid(e) = Sid(d) /\ d \in deliv[e].doneAtStart
                   /\ deliv[d].sawMarker = "absent" /\ OnlyDeliveriesOfSession(d, e)
                   /\ deliv[e].sawMarker \notin {"unset", "error"} )
                 => deliv[e].sawMarker = "absent"

C4_Witness ==
    \E d, e \in Deliveries :
        /\ UnpaidEvent(d) /\ Done(d) /\ deliv[d].resp = Resp(200, "received")
        /\ PaidEvent(e) /\ Sid(e) = Sid(d) /\ d \in deliv[e].doneAtStart
        /\ Done(e) /\ deliv[e].sawMarker = "absent" /\ deliv[e].sends = 1
        /\ kv[Sid(e)].present

OtherKind(d) ==
    /\ CorrectlySigned(d) /\ deliv[d].body.json
    /\ deliv[d].body.type # "checkout.session.completed"

\* C5: a correctly signed delivery of any other event kind is answered 200
\* {received: true} in the step that receives it, and that step leaves the
\* store, the notification count, the last message and every other delivery
\* as they were; the delivery makes no get, put, fetch or dispatch, then or later.
C5_OtherKindsOnlyAcknowledged ==
    [][\A d \in Deliveries :
          /\ (~Started(d) /\ Started(d)' /\ OtherKind(d)') =>
                /\ Done(d)' /\ deliv'[d].resp = Resp(200, "received") /\ NoSideEffects(d)'
                /\ kv' = kv /\ notifyCount' = notifyCount /\ lastMessage' = lastMessage
                /\ \A o \in Deliveries \ {d} : deliv'[o] = deliv[o]
          /\ (Started(d) /\ OtherKind(d)) => deliv'[d] = deliv[d]]_vars

C5_Witness ==
    \E d, e \in Deliveries :
        /\ d < e /\ PaidEvent(d) /\ Done(d) /\ kv[Sid(d)].present
        /\ OtherKind(e) /\ Done(e) /\ deliv[e].resp = Resp(200, "received")

\* C6: when the chat dispatch of a first-seen paid session fails, the delivery
\* has dispatched once only, is answered 200 {received: true} with the marker
\* written, and no later delivery of the session dispatches again (the store
\* answering and the marker not expiring).
C6_DispatchFailureSwallowed ==
    ~kvFailed /\ ~expired =>
        \A d \in Deliveries :
            deliv[d].tgResult = "failed" =>
                /\ deliv[d].sends = 1
                /\ deliv[d].pc \in {"kvput", "done"}
                /\ Done(d) => /\ deliv[d].resp = Resp(200, "received")
                              /\ deliv[d].puts = 1 /\ kv[Sid(d)] = Marker
                /\ \A e \in Deliveries :
                     (d \in deliv[e].doneAtStart /\ Sid(e) = Sid(d)) => deliv[e].sends = 0

C6_Witness ==
    /\ ~kvFailed /\ ~expired
    /\ \E d, e \in Deliveries :
         /\ deliv[d].tgResult = "failed" /\ Done(d) /\ deliv[d].resp = Resp(200, "received")
         /\ PaidEvent(e) /\ Sid(e) = Sid(d) /\ d \in deliv[e].doneAtStart
         /\ Done(e) /\ deliv[e].resp = Resp(200, "already_processed")
         /\ notifyCount[Sid(d)] = 1


\* A request with a JSON object body in which one of the four required fields
\* is absent or falsy (undefined, 0, the empty string).
LacksRequiredField(req) ==
    /\ req.json
    /\ \/ req.amount.kind \in {"undefined", "zero", "emptystring"}
       \/ req.currency.kind = "undefined"
       \/ (req.currency.kind = "string" /\ req.currency.chars = <<>>)
       \/ ~req.successUrl
       \/ ~req.cancelUrl

\* C7: a checkout request lacking any of amount, currency, successUrl,
\* cancelUrl is answered 400 with an {error} body, whichever fields are
\* lacking, and no call to the payment provider is made.
C7_MissingFieldsRejected ==
    co.pc # "idle" /\ LacksRequiredField(co.req) =>
        /\ co.pc = "done"
        /\ co.resp.status = 400 /\ co.resp.body = "error"
        /\ co.calls = 0 /\ co.sent = NoSent /\ co.outcome = NoOutcome

C7_Witness ==
    /\ co.pc = "done" /\ co.req.json /\ ~co.req.cancelUrl
    /\ co.req.amount.kind = "decimal" /\ co.req.currency.kind = "string"
    /\ co.req.currency.chars # <<>> /\ co.req.successUrl
    /\ co.resp.status = 400 /\ co.calls = 0

\* A request with all four fields given, a positive decimal amount and a
\* currency code.
ValidDonation(req) ==
    /\ req.json /\ req.amount.kind = "decimal" /\ req.amount.cents >= 1
    /\ req.currency.kind = "string" /\ req.currency.chars # <<>>
    /\ req.successUrl /\ req.cancelUrl

\* C8, as claimed: for every valid donation request the unit_amount sent to
\* the provider is the amount times 100 (the whole number of cents) and the
\* currency sent is the declared currency in lower case.
C8_UnitAmountIsAmountTimes100 ==
    co.pc # "idle" /\ ValidDonation(co.req) =>
        /\ co.sent.unit_amount = DoubleOfInt(co.req.amount.cents)
        /\ Len(co.sent.currency) = Len(co.req.currency.chars)
        /\ \A i \in 1..Len(co.sent.currency) :
              <<co.req.currency.chars[i], co.sent.currency[i]>> \in
                  {<<"U", "u">>, <<"S", "s">>, <<"D", "d">>, <<"E", "e">>, <<"R", "r">>,
                   <<"u", "u">>, <<"s", "s">>, <<"d", "d">>, <<"e", "e">>, <<"r", "r">>}


\* The note as it stands in a message: what lies between the note label and
\* the closing rule.
NoteSegment(msg) ==
    LET at == CHOOSE i \in 1..Len(msg) : msg[i] = NoteLabel
    IN  SubSeq(msg, at + 1, Len(msg) - 1)

\* A text with the escape markers taken out: a backslash that stands before
\* a reserved character is dropped.
RECURSIVE StripEscapes(_)
StripEscapes(text) ==
    IF text = <<>> THEN <<>>
    ELSE IF Head(text) = "\\" /\ Len(text) >= 2 /\ text[2] \in ReservedChars
      THEN <<text[2]>> \o StripEscapes(SubSeq(text, 3, Len(text)))
      ELSE <<Head(text)>> \o StripEscapes(Tail(text))

CountIn(text, chars) == Cardinality({i \in 1..Len(text) : text[i] \in chars})

\* C9: in the message dispatched for a non-empty donor note every reserved
\* character of the note (*, _, [, ., ! among them) stands right after a
\* backslash, and the note is there unchanged but for these backslashes; for
\* an empty note, or when no payment intent is resolved, the message has no
\* note line.
C9_NoteEscaped ==
    deliv[1].sends = 1 =>
        LET note == deliv[1].donorNote
            labels == {i \in 1..Len(lastMessage) : lastMessage[i] = NoteLabel}
        IN  /\ deliv[1].piResult \in {"null", "skipped"} => note = <<>>
            /\ note = <<>> => labels = {}
            /\ note # <<>> =>
                 /\ Cardinality(labels) = 1
                 /\ LET seg == NoteSegment(lastMessage)
                    IN  /\ \A i \in 1..Len(seg) :
                              seg[i] \in {"*", "_", "[", ".", "!"} => i > 1 /\ seg[i - 1] = "\\"
                        /\ CountIn(seg, {"*", "_", "[", ".", "!"})
                             = CountIn(note, {"*", "_", "[", ".", "!"})
                        /\ StripEscapes(seg) = note

C9_Witness ==
    /\ deliv[1].sends = 1
    /\ deliv[1].donorNote = <<"\\", "*", ".">>
    /\ NoteSegment(lastMessage) = <<"\\", "\\", "*", "\\", ".">>

\* A request that passes the check of line 53.
PassesValidation(req) ==
    /\ req.json /\ req.amount.kind = "decimal"
    /\ req.currency.kind = "number" \/ (req.currency.kind = "string" /\ req.currency.chars # <<>>)
    /\ req.successUrl /\ req.cancelUrl

\* What the response must be once the provider has answered.
AnswerFollowsProvider(c) ==
    c.pc = "done" /\ c.calls = 1 =>
        /\ c.outcome.kind = "ok" => c.resp.status = 200 /\ c.resp.body = "id"
        /\ c.outcome.kind = "error" =>
              /\ c.resp.status = c.outcome.status /\ c.resp.body = "error"
              /\ c.resp.detail = c.outcome.message
        /\ c.outcome.kind \in {"throw", "nonjson"} =>
              c.resp.status = 500 /\ c.resp.detail = "Internal server error."

\* C10, as claimed: every request that passes validation makes exactly one
\* call to the provider and no second one; no step of the request touches the
\* store, the notifications or a delivery; the response is the provider's
\* status and message, 200 with the id, or 500 with the generic error.
C10_ExactlyOneCall ==
    [][co' # co =>
          /\ UNCHANGED <<kv, deliv, notifyCount, lastMessage>>
          /\ PassesValidation(co'.req) => co'.calls = 1 /\ AnswerFollowsProvider(co')]_vars

\* C10, amended: a request that passes validation makes one call to the
\* provider and no second one when its currency is a string, and none when it
\* is not (the response is then 500 with the generic error); no step of the
\* request touches the store, the notifications or a delivery; the response
\* is the provider's status and message, 200 with the id, or 500 generic.
C10_AtMostOneCall ==
    [][co' # co =>
          /\ UNCHANGED <<kv, deliv, notifyCount, lastMessage>>
          /\ PassesValidation(co'.req) =>
                /\ co'.calls = IF co'.req.currency.kind = "string" THEN 1 ELSE 0
                /\ co'.calls = 0 =>
                      /\ co'.pc = "done" /\ co'.resp.status = 500
                      /\ co'.resp.detail = "Internal server error."
                /\ AnswerFollowsProvider(co')]_vars

C10_Witness ==
    /\ co.pc = "done" /\ co.calls = 1 /\ co.outcome.kind = "error"
    /\ co.resp.status = 429 /\ co.resp.detail = "Rate limited"
    /\ kv["cs_1"].present /\ notifyCount["cs_1"] = 1


\* The delivery whose put wrote the marker of a session went through the
\* notification step first.
WrittenAfterNotifyStep(s) ==
    \E d \in Deliveries :
        /\ PaidEvent(d) /\ Sid(d) = s /\ deliv[d].putResult = "ok"
        /\ deliv[d].tgResult \in {"ok", "failed", "skipped"}
        /\ deliv[d].sends = IF deliv[d].tgResult = "skipped" THEN 0 ELSE 1

\* C11, as claimed: in no reachable state is the marker of a session present
\* while no notification dispatch has ever been attempted for that session.
C11_MarkerOnlyAfterDispatch ==
    \A s \in SessionIds : kv[s].present => notifyCount[s] >= 1

\* C11, amended: when the chat token and the chat target are configured, the
\* marker of a session is present only after a dispatch has been attempted for
\* it; when they are not, the marker is written after the dispatch has been
\* skipped.  Either way the delivery that wrote it had passed its notification
\* step.
C11_MarkerOnlyAfterNotifyStep ==
    \A s \in SessionIds :
        kv[s].present =>
            /\ telegramConfigured => notifyCount[s] >= 1
            /\ WrittenAfterNotifyStep(s)

C11_Witness ==
    \E d \in Deliveries :
        /\ telegramConfigured /\ kv[Sid(d)].present /\ notifyCount[Sid(d)] = 1
        /\ PaidEvent(d) /\ deliv[d].tgResult = "failed" /\ deliv[d].putResult = "ok"


\* Two deliveries of the same paid event that were in flight together: the
\* later one arrived before the earlier one was answered.
ConcurrentPair(d, e) ==
    /\ d < e /\ d \notin deliv[e].doneAtStart
    /\ deliv[d].body = deliv[e].body /\ PaidEvent(d) /\ PaidEvent(e)

\* A delivery that ran to its end with no collaborator failing on its way.
RanThrough(d) ==
    /\ Done(d) /\ deliv[d].sawMarker = "absent"
    /\ deliv[d].piResult \in {"skipped", "ok", "null"} /\ deliv[d].putResult = "ok"

\* C12: the check and the write of the marker are not one atomic step.  Of
\* two concurrent deliveries of the same paid event that both read the marker
\* as absent, neither is held back by the other: with the chat configured each
\* dispatches its own notification, so the session is notified twice, and
\* both are answered 200 {received: true}.  The witness is the interleaving.
C12_CheckThenActNotAtomic ==
    \A d, e \in Deliveries :
        ( /\ telegramConfigured /\ RanThrough(d) /\ RanThrough(e)
          /\ ConcurrentPair(d, e) )
        => /\ deliv[d].sends = 1 /\ deliv[e].sends = 1
           /\ notifyCount[Sid(d)] >= 2
           /\ deliv[d].resp = Resp(200, "received")
           /\ deliv[e].resp = Resp(200, "received")

C12_Witness ==
    \E d, e \in Deliveries :
        /\ ConcurrentPair(d, e) /\ OnlyDeliveriesOfSession(d, e)
        /\ RanThrough(d) /\ RanThrough(e) /\ ~kvFailed /\ ~expired
        /\ deliv[d].gets = 1 /\ deliv[e].gets = 1
        /\ deliv[d].sends = 1 /\ deliv[e].sends = 1
        /\ notifyCount[Sid(d)] = 2
        /\ deliv[d].resp = Resp(200, "received")
        /\ deliv[e].resp = Resp(200, "received")


\* A first-seen paid delivery that dispatched its notification and then came
\* to its end without the marker written: ended by the runtime before the put
\* (no response), or its put threw (400).
FaultedAfterDispatch(d) ==
    /\ PaidEvent(d) /\ Done(d) /\ deliv[d].sawMarker = "absent"
    /\ deliv[d].sends = 1 /\ deliv[d].putResult # "ok"

\* C13: when a first-seen paid delivery has dispatched its notification and
\* faults before the marker is written, the marker stays absent, a redelivery
\* arriving afterwards never finds it, and every such redelivery that is
\* answered 200 has dispatched a second notification for the session.
C13_FaultBeforeMarkerDuplicates ==
    \A d, e \in Deliveries :
        ( /\ FaultedAfterDispatch(d) /\ PaidEvent(e) /\ deliv[e].body = deliv[d].body
          /\ d \in deliv[e].doneAtStart /\ OnlyDeliveriesOfSession(d, e) )
        => /\ deliv[e].putResult # "ok" => ~kv[Sid(d)].present
           /\ deliv[e].sawMarker # "present"
           /\ deliv[e].resp # Resp(200, "already_processed")
           /\ deliv[e].resp.status = 200 =>
                 /\ deliv[e].resp = Resp(200, "received")
                 /\ deliv[e].sends = 1 /\ notifyCount[Sid(d)] = 2

C13_Witness ==
    \E d, e \in Deliveries :
        /\ FaultedAfterDispatch(d) /\ deliv[d].resp = NoResp /\ deliv[d].puts = 0
        /\ PaidEvent(e) /\ deliv[e].body = deliv[d].body /\ d \in deliv[e].doneAtStart
        /\ Done(e) /\ deliv[e].resp = Resp(200, "received")
        /\ deliv[e].sends = 1 /\ notifyCount[Sid(d)] = 2 /\ kv[Sid(d)].present


HasNoteLine(msg) == \E i \in 1..Len(msg) : msg[i] = NoteLabel

\* What "non-fatal" asks of a step that leaves delivery d past a failed fetch
\* of the payment intent: the note is empty, the dispatch is made (the chat
\* being configured) with no note line, and unless the put itself throws the
\* marker is written and the answer is 200 {received: true}.
FetchFailureNotFatal(d) ==
    /\ deliv'[d].donorNote = <<>>
    /\ deliv'[d].sends > deliv[d].sends => ~HasNoteLine(lastMessage')
    /\ telegramConfigured' /\ deliv'[d].pc \in {"kvput", "done"} => deliv'[d].sends = 1
    /\ deliv'[d].pc = "done" /\ deliv'[d].putResult # "error" =>
          /\ deliv'[d].putResult = "ok"
          /\ deliv'[d].resp = Resp(200, "received")
    /\ deliv[d].pc = "kvput" /\ deliv'[d].putResult = "ok" => kv'[Sid(d)] = Marker

FirstSeenPaidWithFetch(d, results) ==
    /\ PaidEvent(d) /\ deliv[d].sawMarker = "absent" /\ deliv[d].piResult \in results

\* C14, as claimed: a failed fetch of the payment intent of a first-seen paid
\* event, the fetch answering with a non-success status or throwing, is not
\* fatal: the notification is dispatched with an empty note and no note line,
\* the marker is written and the delivery is answered 200 {received: true}.
C14_FetchFailureNotFatal ==
    [][\A d \in Deliveries :
          FirstSeenPaidWithFetch(d, {"null", "threw"})' => FetchFailureNotFatal(d)]_vars

\* C14, amended: the same for a fetch answered with a non-success status; a
\* fetch that throws ends the delivery with 400, nothing dispatched and no
\* marker written.
C14_NonSuccessFetchNotFatal ==
    [][\A d \in Deliveries :
          /\ FirstSeenPaidWithFetch(d, {"null"})' => FetchFailureNotFatal(d)
          /\ FirstSeenPaidWithFetch(d, {"threw"})' =>
                /\ deliv'[d].pc = "done" /\ deliv'[d].resp.status = 400
                /\ deliv'[d].sends = 0 /\ deliv'[d].puts = 0
                /\ deliv'[d] # deliv[d] => kv' = kv /\ notifyCount' = notifyCount]_vars

C14_Witness ==
    \E d, e \in Deliveries :
        /\ telegramConfigured
        /\ FirstSeenPaidWithFetch(d, {"null"}) /\ Done(d) /\ deliv[d].fetches = 1
        /\ deliv[d].sends = 1 /\ deliv[d].resp = Resp(200, "received")
        /\ kv[Sid(d)].present /\ ~HasNoteLine(lastMessage)
        /\ FirstSeenPaidWithFetch(e, {"threw"}) /\ Done(e) /\ deliv[e].resp.status = 400


\* The get or the put of delivery d has thrown.
StoreFailed(d) == deliv[d].sawMarker = "error" \/ deliv[d].putResult = "error"

\* C15: when the marker get or the marker put of a correctly signed completed
\* event throws, the step in which it throws ends the delivery with 400 and
\* leaves the store as it was; the delivery does nothing afterwards, so it is
\* never answered 200 and writes nothing.
C15_StoreFailureGives400 ==
    [][\A d \in Deliveries :
          /\ (~StoreFailed(d) /\ StoreFailed(d)') =>
                /\ CompletedEvent(d)'
                /\ Done(d)' /\ deliv'[d].resp.status = 400
                /\ deliv'[d].putResult # "ok"
                /\ kv' = kv
          /\ StoreFailed(d) => deliv'[d] = deliv[d]]_vars

C15_Witness ==
    \E d, e \in Deliveries :
        /\ PaidEvent(d) /\ Done(d) /\ deliv[d].putResult = "error" /\ deliv[d].sends = 1
        /\ deliv[d].resp.status = 400
        /\ CompletedEvent(e) /\ Done(e) /\ deliv[e].sawMarker = "error"
        /\ deliv[e].resp.status = 400 /\ deliv[e].puts = 0
        /\ ~kv[Sid(d)].present /\ ~kv[Sid(e)].present /\ ~expired


InFlight(d) == deliv[d].pc \in {"kvget", "fetchpi", "notify", "kvput"}
Answered(d) == Done(d) /\ deliv[d].resp.status \in {200, 400}

\* C16: every delivery whose collaborator calls return or fail is answered in
\* the end, with 200 or 400: the later deliveries whatever the first one does,
\* stalled for ever included, and the first one when its own calls return or
\* fail; an answer once given is never changed or followed by another step of
\* the delivery; and no delivery in flight ever has to wait for another one:
\* its next step can always be taken.
C16_EveryDeliveryAnswered ==
    /\ \A d \in Deliveries \ {1} : [](Started(d) => <>Answered(d))
    /\ WF_vars(DeliveryStep(1)) => [](Started(1) => <>Answered(1))
    /\ [][\A d \in Deliveries : Done(d) => Answered(d) /\ deliv'[d] = deliv[d]]_vars
    /\ [](\A d \in Deliveries : InFlight(d) => ENABLED DeliveryStep(d))

C16_Witness ==
    \E e \in Deliveries \ {1} :
        /\ InFlight(1) /\ deliv[1].pc = "kvput" /\ PaidEvent(1)
        /\ PaidEvent(e) /\ Sid(e) = Sid(1) /\ Answered(e)
        /\ deliv[e].resp = Resp(200, "received") /\ deliv[e].sends = 1


\* A first-seen paid delivery that found the chat not configured.
SkippedDispatch(d) ==
    PaidEvent(d) /\ deliv[d].sawMarker = "absent" /\ deliv[d].tgResult = "skipped"

\* Every other delivery for the session of d arrived after d was answered.
AllOthersLater(d) ==
    \A e \in Deliveries \ {d} :
        (CompletedEvent(e) /\ Sid(e) = Sid(d)) => d \in deliv[e].doneAtStart

\* C17: a first-seen paid delivery that finds the chat token or the chat
\* target not configured dispatches nothing, still writes the marker (its put
\* not throwing) and is answered 200 {received: true}; while the marker lives
\* every later delivery for the session whose get answers finds it, is
\* answered already_processed and dispatches nothing, so the session has no
\* notification at all, the configuration supplied afterwards or not.
C17_UnconfiguredMarksWithoutNotifying ==
    \A d \in Deliveries :
        SkippedDispatch(d) =>
            /\ deliv[d].sends = 0
            /\ Done(d) /\ deliv[d].putResult # "error" =>
                  /\ deliv[d].putResult = "ok"
                  /\ deliv[d].resp = Resp(200, "received")
            /\ deliv[d].putResult = "ok" /\ ~expired =>
                  /\ kv[Sid(d)] = Marker
                  /\ \A e \in Deliveries :
                        ( /\ CompletedEvent(e) /\ Sid(e) = Sid(d) /\ d \in deliv[e].doneAtStart
                          /\ deliv[e].sawMarker \notin {"unset", "error"} )
                        => /\ deliv[e].resp = Resp(200, "already_processed")
                           /\ deliv[e].sends = 0 /\ deliv[e].puts = 0
                  /\ AllOthersLater(d) => notifyCount[Sid(d)] = 0

C17_Witness ==
    \E d, e \in Deliveries :
        /\ SkippedDispatch(d) /\ deliv[d].resp = Resp(200, "received") /\ ~expired
        /\ telegramConfigured
        /\ PaidEvent(e) /\ Sid(e) = Sid(d) /\ d \in deliv[e].doneAtStart
        /\ deliv[e].resp = Resp(200, "already_processed")
        /\ notifyCount[Sid(d)] = 0 /\ kv[Sid(d)].present


\* The step answers delivery d, a correctly signed paid completed event, 200.
AnswersPaid200(d) ==
    /\ ~Done(d) /\ Done(d)' /\ PaidEvent(d)' /\ deliv'[d].resp.status = 200

\* C18: in every interleaving, at the step that answers a correctly signed
\* paid completed event with 200 the marker of its session is in the store:
\* for {received: true} this delivery's own put has just completed, for
\* {status: "already_processed"} its get has just found the marker.
C18_MarkerPresentAt200 ==
    [][\A d \in Deliveries :
          AnswersPaid200(d) =>
              /\ kv'[deliv'[d].body.sid] = Marker
              /\ \/ /\ deliv'[d].resp = Resp(200, "received")
                    /\ deliv'[d].putResult = "ok" /\ deliv'[d].puts = 1
                 \/ /\ deliv'[d].resp = Resp(200, "already_processed")
                    /\ deliv'[d].sawMarker = "present" /\ deliv'[d].puts = 0]_vars

C18_Witness ==
    \E d, e \in Deliveries :
        /\ ConcurrentPair(d, e) /\ Done(d) /\ Done(e)
        /\ deliv[d].resp = Resp(200, "received") /\ deliv[d].tgResult = "skipped"
        /\ deliv[e].resp = Resp(200, "already_processed")
        /\ kv[Sid(d)].present /\ ~expired


\* The one store key of a session.
KeyOf(s) == "processed_session_" \o s

\* The step is the put of a delivery for session s that had found no marker.
PutBy(d, s) ==
    /\ deliv[d].pc = "kvput" /\ deliv'[d].putResult = "ok"
    /\ deliv[d].body.sid = s /\ deliv[d].sawMarker = "absent"

\* C19: a delivery for session S gets and puts the key processed_session_S
\* only; a marker changes only by the put of a delivery for its own session,
\* which writes 'processed' with the 30-day TTL and leaves every other marker
\* alone, or by the store expiring it; no step of a handler removes a marker
\* or changes one that is present; a delivery that found the marker present
\* makes no put.
C19_OnlyOwnMarkerTouched ==
    [][/\ \A d \in Deliveries :
             /\ deliv'[d].keys \subseteq {KeyOf(deliv'[d].body.sid)}
             /\ deliv'[d].sawMarker = "present" => deliv'[d].puts = 0
             /\ deliv'[d] # deliv[d] =>
                   \A s \in SessionIds \ {deliv'[d].body.sid} : kv'[s] = kv[s]
       /\ \A s \in SessionIds :
             kv'[s] # kv[s] =>
                 \/ /\ kv'[s] = [present |-> TRUE, value |-> "processed", ttl |-> 60 * 60 * 24 * 30]
                    /\ ~kv[s].present
                    /\ \E d \in Deliveries : PutBy(d, s)
                 \/ /\ deliv' = deliv /\ co' = co /\ expired'
                    /\ kv'[s] = NoMarker]_vars

C19_Witness ==
    \E d, e \in Deliveries :
        /\ PaidEvent(d) /\ PaidEvent(e) /\ Sid(d) = "cs_1" /\ Sid(e) = "cs_2"
        /\ d \in deliv[e].doneAtStart
        /\ deliv[d].putResult = "ok" /\ deliv[d].keys = {"processed_session_cs_1"}
        /\ deliv[e].sawMarker = "absent" /\ deliv[e].pc = "kvput"
        /\ deliv[e].keys = {"processed_session_cs_2"}
        /\ kv["cs_1"] = Marker /\ kv["cs_2"] = NoMarker /\ ~expired

====
